---- MODULE Spec2Model ----
(***************************************************************************)
(* Model of wee_bugger.SimpleDebugger (src/wee_bugger/wee_bugger.py): the  *)
(* trace callback, the prompt loop and the seven command handlers.         *)
(*                                                                         *)
(* Text is a sequence of one-character strings (<<"p", " ", "x">> is the   *)
(* line "p x"), so that str.split is modelled by what it does.             *)
(* The traced program is suspended while trace_function runs, so the only  *)
(* points at which the debugger's state can be observed are: outside       *)
(* trace_function (pc = "idle"), blocked in input() inside the prompt loop *)
(* (pc = "prompt"), and after sys.exit (pc = "exited").                    *)
(* A step is everything the code runs between two such points: reading n   *)
(* runs _step, the break, the reset of step_mode and the return.           *)
(* The runtime may deliver any event at any time it is not inside the      *)
(* callback, whatever the callback returned last.                          *)
(***************************************************************************)
EXTENDS Integers, Sequences, FiniteSets, TLC

VARIABLES
    step_mode,       \* self.step_mode
    continue_mode,   \* self.continue_mode
    current_frame,   \* self.current_frame: None or the result of inspect.getframeinfo
    frame,           \* the frame argument of the last line event: the frame being traced
    event,           \* the event argument of the running / last trace_function call
    pc,              \* "idle" | "prompt" | "exited"
    step,            \* history: the action that led to this state
    last_command,    \* _prompt_command's local command, as of the last iteration:
                     \* the first word of the line it read, <<>> when it split none
    last_arg,        \* _prompt_command's local arg, likewise
    exc,             \* the exception raised in the last prompt-loop iteration, or "none"
    out,             \* what the last step printed, a sequence of output lines
    ret,             \* what the last trace_function call returned
    exit_code,       \* the process exit status, once exited
    c_issued,        \* history: a line whose command is c was dispatched in this session
    n_issued,        \* history: a line whose command is n was dispatched in this session
    erred            \* history: the prompt of the current / last line event saw an
                     \* operator error, a lookup miss, an interruption or a failure

vars == <<step_mode, continue_mode, current_frame, frame, event, pc, step, last_command,
          last_arg, exc, out,
          ret, exit_code, c_issued, n_issued, erred>>

-----------------------------------------------------------------------------
(* Bounds of the model *)

\* the operator types up to MaxPad blanks before the first word and after it
MaxPad == 1
\* the traced file has FileLen lines; the traced frame is at one of them
FileLen == 2
\* variables hold one of NumValues values
NumValues == 2

(* Program constants *)

\* lines shown before and after the current line by the l command
Radius == 5

\* Python's None: the unset current_frame, and the return value that detaches
None == <<>>
\* the bound method self.trace_function, as a return value
Self == <<"self.trace_function">>
\* ret before trace_function has returned once
NoReturn == <<"no return yet">>
\* exit_code while the process runs
Running == <<>>
Filename == "prog.py"

-----------------------------------------------------------------------------
(* Inputs *)

Blank == " "
Pad(n) == [i \in 1..n |-> Blank]

\* the keys of self.commands
commands == {<<"h">>, <<"n">>, <<"p">>, <<"l">>, <<"c">>, <<"v">>, <<"q">>}

\* first words the operator may type: every command key and one that is not a command
Words == commands \cup {<<"x">>}
\* what may follow the first word: nothing, a name, or another name and a blank
Rests == {<<>>, <<"x">>, <<"y", " ">>}

\* the lines input() may return
Lines ==
    {Pad(i) \o w \o Pad(j) \o r : i \in 0..MaxPad, j \in 0..MaxPad, w \in Words, r \in Rests}
    \cup {Pad(i) : i \in 0..MaxPad}

\* input() raises instead of returning: Ctrl-C, or end of input
InputFailures == {"KeyboardInterrupt", "EOFError"}

Names == {<<"x">>}
Values == {<<"v", n>> : n \in 1..NumValues}
Bindings == UNION {[D -> Values] : D \in SUBSET Names}

\* the frames the runtime may pass to trace_function
Frames == [f_lineno : 1..FileLen, f_locals : Bindings, f_globals : Bindings,
           co_filename : {Filename}]

Events == {"call", "line", "return", "exception"}

-----------------------------------------------------------------------------
(* Library functions the code calls *)

\* dict.get(key, default)
Get(d, key, default) == IF key \in DOMAIN d THEN d[key] ELSE default

RECURSIVE LStrip(_)
LStrip(s) == IF s # <<>> /\ Head(s) = Blank THEN LStrip(Tail(s)) ELSE s

RECURSIVE FirstWord(_)
FirstWord(s) ==
    IF s = <<>> \/ Head(s) = Blank THEN <<>> ELSE <<Head(s)>> \o FirstWord(Tail(s))

\* str.split(maxsplit=1): leading blanks dropped, the first word, and, when anything
\* but blanks follows it, the remainder from its first non-blank character on
Split(s) ==
    LET t == LStrip(s)
        w == FirstWord(t)
        r == LStrip(SubSeq(t, Len(w) + 1, Len(t)))
    IN  IF t = <<>> THEN <<>>
        ELSE IF r = <<>> THEN <<w>>
        ELSE <<w, r>>

\* linecache.getline(filename, n): the line's text, or '' past the end of the file
getline(filename, n) == IF n \in 1..FileLen THEN <<"line", n>> ELSE <<>>

\* inspect.getframeinfo(frame): a Traceback named tuple (filename, lineno, ...);
\* it has no attribute named frame
getframeinfo(f) == [filename |-> f.co_filename, lineno |-> f.f_lineno]

\* obj.name raises AttributeError unless obj has the attribute
HasAttr(obj, name) == name \in DOMAIN obj

\* what a clause "except BaseException" would catch
IsBaseException(e) == TRUE

\* the exceptions that are instances of Exception; KeyboardInterrupt and SystemExit
\* derive from BaseException only
IsException(e) == e \in {"AttributeError", "ValueError", "EOFError"}

-----------------------------------------------------------------------------
(* Output lines *)

HelpText ==
    << [kind |-> "help", text |-> "Available commands:"],
       [kind |-> "help", text |-> "h: Show this help"],
       [kind |-> "help", text |-> "n: Step to next line"],
       [kind |-> "help", text |-> "p <var>: Print variable value"],
       [kind |-> "help", text |-> "l: List source code around current line"],
       [kind |-> "help", text |-> "c: Continue execution"],
       [kind |-> "help", text |-> "v: Show all local variables"],
       [kind |-> "help", text |-> "q: Quit debugging"] >>

UsageLine == [kind |-> "usage", text |-> "Usage: p <variable_name>"]
NotFound == <<"<not found>">>
ValueLine(name, value) == [kind |-> "value", name |-> name, value |-> value]
AccessErrorLine(e) == [kind |-> "access_error", text |-> "Error accessing variable:", e |-> e]
ErrorLine(e) == [kind |-> "error", text |-> "Error:", e |-> e]
UnknownLine(command) == [kind |-> "unknown", text |-> "Unknown command:", command |-> command]
HintLine == [kind |-> "hint", text |-> "Use 'q' to quit"]
AtLine(filename, lineno) == [kind |-> "at", filename |-> filename, lineno |-> lineno]
CurrentLine(text) == [kind |-> "current", marker |-> "-->", text |-> text]
SourceLine(marker, n, text) == [kind |-> "source", marker |-> marker, num |-> n, text |-> text]
AroundLine(n) == [kind |-> "around", text |-> "Source code around line", num |-> n]

-----------------------------------------------------------------------------
(* The command handlers.  A handler's outcome is the exception it raises    *)
(* ("none" when it returns), what it prints, and the two mode flags after it *)

Outcome(e, printed, sm, cm) ==
    [exc |-> e, out |-> printed, step_mode |-> sm, continue_mode |-> cm]

\* the items of a dict in its iteration order
RECURSIVE Items(_)
Items(d) ==
    IF DOMAIN d = {} THEN <<>>
    ELSE LET k == CHOOSE x \in DOMAIN d : TRUE
         IN  <<ValueLine(k, d[k])>> \o Items([y \in DOMAIN d \ {k} |-> d[y]])

\* _help also requesting a step
_help_sets_step(arg) == Outcome("none", HelpText, TRUE, continue_mode)

_help(arg) == Outcome("none", HelpText, step_mode, continue_mode)

\* _step with the wrong flag set
_step_sets_continue(arg) == Outcome("none", <<>>, step_mode, TRUE)

_step(arg) == Outcome("none", <<>>, TRUE, continue_mode)

\* _continue with the wrong flag set
_continue_sets_step(arg) == Outcome("none", <<>>, TRUE, continue_mode)

_continue(arg) == Outcome("none", <<>>, step_mode, TRUE)

\* _print_variable without its check for a missing argument
_print_variable_unchecked(arg) ==
    IF ~HasAttr(current_frame, "frame")
    THEN Outcome("none", <<AccessErrorLine("AttributeError")>>, step_mode, continue_mode)
    ELSE LET f == current_frame.frame
             value == Get(f.f_locals, arg, Get(f.f_globals, arg, NotFound))
         IN  Outcome("none", <<ValueLine(arg, value)>>, step_mode, continue_mode)

_print_variable(arg) ==
    IF arg = <<>> THEN Outcome("none", <<UsageLine>>, step_mode, continue_mode)
    ELSE IF ~HasAttr(current_frame, "frame")
         THEN Outcome("none", <<AccessErrorLine("AttributeError")>>, step_mode, continue_mode)
    ELSE LET f == current_frame.frame
             value == Get(f.f_locals, arg, Get(f.f_globals, arg, NotFound))
         IN  Outcome("none", <<ValueLine(arg, value)>>, step_mode, continue_mode)

\* _list_variables also setting continue_mode
_list_variables_continues(arg) ==
    IF current_frame = None THEN Outcome("none", <<>>, step_mode, TRUE)
    ELSE IF ~HasAttr(current_frame, "frame")
         THEN Outcome("AttributeError", <<>>, step_mode, TRUE)
    ELSE Outcome("none", Items(current_frame.frame.f_locals), step_mode, TRUE)

_list_variables(arg) ==
    IF current_frame = None THEN Outcome("none", <<>>, step_mode, continue_mode)
    ELSE IF ~HasAttr(current_frame, "frame")
         THEN Outcome("AttributeError", <<>>, step_mode, continue_mode)
    ELSE Outcome("none", Items(current_frame.frame.f_locals), step_mode, continue_mode)

_list_source(arg) ==
    IF current_frame = None THEN Outcome("none", <<>>, step_mode, continue_mode)
    ELSE IF ~HasAttr(current_frame, "frame")
         THEN Outcome("AttributeError", <<>>, step_mode, continue_mode)
    ELSE LET f == current_frame.frame
             current_line == f.f_lineno
             start_line == IF current_line - Radius > 1 THEN current_line - Radius ELSE 1
             end_line == current_line + Radius
             listing == [i \in 1..(end_line - start_line + 1) |->
                           LET line_num == start_line + i - 1
                           IN  SourceLine(IF line_num = current_line THEN "-->" ELSE "   ",
                                          line_num, getline(f.co_filename, line_num))]
         IN  Outcome("none", <<AroundLine(current_line)>> \o listing,
                     step_mode, continue_mode)

_quit(arg) == Outcome("SystemExit", <<>>, step_mode, continue_mode)

\* self.commands[command](arg)
Dispatch(command, arg) ==
    CASE command = <<"h">> -> _help(arg)
      [] command = <<"n">> -> _step(arg)
      [] command = <<"p">> -> _print_variable(arg)
      [] command = <<"l">> -> _list_source(arg)
      [] command = <<"c">> -> _continue(arg)
      [] command = <<"v">> -> _list_variables(arg)
      [] command = <<"q">> -> _quit(arg)

-----------------------------------------------------------------------------
(* _prompt_command: one iteration of its loop *)

\* the break left out
BreakNever == {}
\* break lists that differ from the code's by one key
BreakOnStepOnly == {<<"n">>}
BreakOnHelpToo == {<<"n">>, <<"c">>, <<"h">>}
BreakOnPrintToo == {<<"n">>, <<"c">>, <<"p">>}

\* the commands after which the loop breaks
BreakCommands == {<<"n">>, <<"c">>}

\* the else branch without its call of _help
UnknownCommandNoHelp(command) ==
    Outcome("none", <<UnknownLine(command)>>, step_mode, continue_mode)

\* the else branch: an unknown command
UnknownCommand(command) ==
    Outcome("none", <<UnknownLine(command)>> \o _help(<<>>).out, step_mode, continue_mode)

\* the try body, input() having returned line: the outcome of the handler it ran, the
\* command and arg it split (<<>> when it did not get that far), dispatched, which
\* tells whether a handler of self.commands ran, and brk, whether the break was reached
TryBody(line) ==
    LET parts == Split(line)
        Quiet(e) == [exc |-> e, out |-> <<>>, step_mode |-> step_mode,
                     continue_mode |-> continue_mode, command |-> <<>>, arg |-> <<>>,
                     dispatched |-> FALSE, brk |-> FALSE]
    IN  IF line = <<>> THEN Quiet("none")
        ELSE IF parts = <<>> THEN Quiet("ValueError")
        ELSE LET word == parts[1]
                 rest == IF Len(parts) > 1 THEN parts[2] ELSE <<>>
             IN  IF word \in commands
                 THEN LET r == Dispatch(word, rest)
                      IN  [exc |-> r.exc, out |-> r.out, step_mode |-> r.step_mode,
                           continue_mode |-> r.continue_mode, command |-> word,
                           arg |-> rest, dispatched |-> TRUE,
                           brk |-> r.exc = "none" /\ word \in BreakCommands]
                 ELSE LET r == UnknownCommand(word)
                      IN  [exc |-> r.exc, out |-> r.out, step_mode |-> r.step_mode,
                           continue_mode |-> r.continue_mode, command |-> word,
                           arg |-> rest, dispatched |-> FALSE, brk |-> FALSE]

\* the try body, input() having raised e
InputRaised(e) ==
    [exc |-> e, out |-> <<>>, step_mode |-> step_mode, continue_mode |-> continue_mode,
     command |-> <<>>, arg |-> <<>>, dispatched |-> FALSE, brk |-> FALSE]

\* the loop without its clause "except Exception"
CaughtInterruptOnly(e) == e = "KeyboardInterrupt"

\* the except clauses: what is printed for an exception they catch
Caught(e) == e = "KeyboardInterrupt" \/ IsException(e)
Diagnostic(e) == IF e = "KeyboardInterrupt" THEN <<HintLine>> ELSE <<ErrorLine(e)>>

\* sys.exit(0): the status of the SystemExit that _quit raises
ExitStatus == 0

-----------------------------------------------------------------------------
(* trace_function *)

\* _show_current_line printing nothing
_show_current_line_silent(cf) == <<>>

_show_current_line(cf) ==
    IF cf = None THEN <<>>
    ELSE <<AtLine(cf.filename, cf.lineno), CurrentLine(getline(cf.filename, cf.lineno))>>

\* the reset left out
ResetStepModeSkipped(sm) == sm

\* self.step_mode = False, after the prompt
ResetStepMode(sm) == FALSE

\* the test of continue_mode the wrong way round
DecisionInverted(cm) == IF cm THEN Self ELSE None
\* the callback always re-registered
DecisionAlwaysSelf(cm) == Self

\* the callback kept while a step request is pending
DecisionWhileStepping(cm) == IF ~cm \/ step_mode THEN Self ELSE None

\* return self.trace_function if not self.continue_mode else None
Decision(cm) == IF ~cm THEN Self ELSE None

-----------------------------------------------------------------------------
(* The state machine *)

Init ==
    /\ step_mode = FALSE
    /\ continue_mode = FALSE
    /\ current_frame = None
    /\ frame = None
    /\ event = "none"
    /\ pc = "idle"
    /\ step = "Init"
    /\ last_command = <<>>
    /\ last_arg = <<>>
    /\ exc = "none"
    /\ out = <<>>
    /\ ret = NoReturn
    /\ exit_code = Running
    /\ c_issued = FALSE
    /\ n_issued = FALSE
    /\ erred = FALSE

\* the runtime calls trace_function with a line event: the call runs up to the first
\* input(), or to its return when continue_mode is set
TraceLine ==
    /\ pc = "idle"
    /\ \E f \in Frames :
        /\ frame' = f
        /\ event' = "line"
        /\ current_frame' = getframeinfo(f)
        /\ step' = "TraceLine"
        /\ IF ~continue_mode
           THEN /\ out' = _show_current_line(getframeinfo(f))
                /\ pc' = "prompt"
                /\ last_command' = <<>>
                /\ last_arg' = <<>>
                /\ exc' = "none"
                /\ erred' = FALSE
                /\ UNCHANGED <<step_mode, ret>>
           ELSE /\ out' = <<>>
                /\ step_mode' = ResetStepMode(step_mode)
                /\ ret' = Decision(continue_mode)
                /\ UNCHANGED <<pc, last_command, last_arg, exc, erred>>
    /\ UNCHANGED <<continue_mode, exit_code, c_issued, n_issued>>

\* trace_function without its test of the event kind: any event renders and prompts
TraceOtherPrompts ==
    /\ pc = "idle"
    /\ \E ev \in Events \ {"line"} : event' = ev
    /\ step' = "TraceOther"
    /\ IF ~continue_mode
       THEN /\ out' = _show_current_line(current_frame)
            /\ pc' = "prompt"
            /\ UNCHANGED ret
       ELSE /\ out' = <<>>
            /\ ret' = Decision(continue_mode)
            /\ UNCHANGED pc
    /\ UNCHANGED <<step_mode, continue_mode, current_frame, frame, last_command,
                   last_arg, exc, exit_code, c_issued, n_issued, erred>>

\* the runtime calls trace_function with an event of another kind; its frame argument
\* is not read
TraceOther ==
    /\ pc = "idle"
    /\ \E ev \in Events \ {"line"} : event' = ev
    /\ step' = "TraceOther"
    /\ out' = <<>>
    /\ ret' = Decision(continue_mode)
    /\ UNCHANGED <<step_mode, continue_mode, current_frame, frame, pc, last_command,
                   last_arg, exc, exit_code, c_issued, n_issued, erred>>

\* whether the iteration whose try body ended as r met an error that is not a quit:
\* an exception, an unknown command, p without its argument, a failed or missed lookup
Errs(r) ==
    \/ r.exc \notin {"none", "SystemExit"}
    \/ r.command # <<>> /\ ~r.dispatched
    \/ r.dispatched /\ r.command = <<"p">> /\ r.arg = <<>>
    \/ \E i \in 1..Len(r.out) :
          \/ r.out[i].kind = "access_error"
          \/ r.out[i].kind = "value" /\ r.out[i].value = NotFound

\* the rest of a prompt-loop iteration whose try body ended as r: an exception no
\* clause catches ends the process; a break ends the loop and trace_function returns;
\* anything else goes back to input()
Iteration(r) ==
    /\ exc' = r.exc
    /\ last_command' = r.command
    /\ last_arg' = r.arg
    /\ c_issued' = (c_issued \/ (r.dispatched /\ r.command = <<"c">>))
    /\ n_issued' = (n_issued \/ (r.dispatched /\ r.command = <<"n">>))
    /\ erred' = (erred \/ Errs(r))
    /\ continue_mode' = r.continue_mode
    /\ UNCHANGED <<current_frame, frame, event>>
    /\ IF r.exc # "none" /\ ~Caught(r.exc)
       THEN /\ pc' = "exited"
            /\ exit_code' = <<ExitStatus>>
            /\ out' = r.out
            /\ step_mode' = r.step_mode
            /\ UNCHANGED ret
       ELSE IF r.brk
       THEN /\ pc' = "idle"
            /\ out' = r.out
            /\ step_mode' = ResetStepMode(r.step_mode)
            /\ ret' = Decision(r.continue_mode)
            /\ UNCHANGED exit_code
       ELSE /\ pc' = "prompt"
            /\ out' = r.out \o (IF r.exc = "none" THEN <<>> ELSE Diagnostic(r.exc))
            /\ step_mode' = r.step_mode
            /\ UNCHANGED <<ret, exit_code>>

\* the operator enters a line at the prompt
PromptCommand ==
    /\ pc = "prompt"
    /\ \E line \in Lines : \E r \in {TryBody(line)} : Iteration(r)
    /\ step' = "PromptCommand"

\* input() raises at the prompt
PromptInputFails ==
    /\ pc = "prompt"
    /\ \E e \in InputFailures : Iteration(InputRaised(e))
    /\ step' = "PromptInputFails"

Next == TraceLine \/ TraceOther \/ PromptCommand \/ PromptInputFails

Spec == Init /\ [][Next]_vars

\* the operator enters n, c or q at the prompt
OperatorResumes ==
    /\ pc = "prompt"
    /\ \E line \in {<<"n">>, <<"c">>, <<"q">>} : \E r \in {TryBody(line)} : Iteration(r)
    /\ step' = "PromptCommand"

\* the runs in which the operator does not withhold n, c and q for ever
FairSpec == Spec /\ WF_vars(OperatorResumes)

-----------------------------------------------------------------------------
(* What the last step read at the prompt *)

\* the first word of the line the last step read, <<>> when the last step read no line
\* or the line held no word
LastCommand == IF step = "PromptCommand" THEN last_command ELSE <<>>
\* the argument given with it
LastArg == IF step = "PromptCommand" THEN last_arg ELSE <<>>

TypeOK ==
    /\ step_mode \in BOOLEAN
    /\ continue_mode \in BOOLEAN
    /\ pc \in {"idle", "prompt", "exited"}
    /\ last_command \in {<<>>} \cup {Split(l)[1] : l \in {x \in Lines : Split(x) # <<>>}}
    /\ ret \in {NoReturn, Self, None}

-----------------------------------------------------------------------------
(* Properties *)

PromptSteps == {"PromptCommand", "PromptInputFails"}
InspectionCommands == {<<"h">>, <<"p">>, <<"l">>, <<"v">>}

\* C1: once a c command has been dispatched, no later step opens or continues a prompt
\* (the only prompt read in such a state is the one that read the c itself), and every
\* line event delivered afterwards prints nothing: it passes through.
C1_ContinuePassesThrough ==
    c_issued =>
        /\ pc # "prompt"
        /\ step = "TraceLine" => out = <<>>
        /\ step \in PromptSteps => LastCommand = <<"c">>

\* a line event was delivered after c and passed through
C1_Witness ==
    c_issued /\ step = "TraceLine" /\ event = "line" /\ pc = "idle" /\ out = <<>>

\* C2: whenever trace_function has returned (the debugger is outside the callback),
\* step_mode is false, whatever was entered at the prompt of the event.
C2_StepModeResetAtReturn == pc = "idle" => step_mode = FALSE

\* a line event handled while not continuing has returned after an n
C2_Witness ==
    /\ step = "PromptCommand" /\ LastCommand = <<"n">> /\ event = "line"
    /\ pc = "idle" /\ ~continue_mode /\ ~step_mode

\* C3: the debugger is never blocked in input() while continue_mode is true.
C3_NeverPromptingWhileContinuing == ~(pc = "prompt" /\ continue_mode)

\* c was entered at a prompt, continue_mode is set and the prompt is closed
C3_Witness ==
    step = "PromptCommand" /\ LastCommand = <<"c">> /\ continue_mode /\ pc = "idle"

\* C4: a line read at the prompt ends the prompt loop and returns from trace_function
\* exactly when its command is n or c; after h, p, l or v, with or without an argument,
\* the loop is at input() again.
C4_OnlyStepAndContinueResume ==
    step = "PromptCommand" =>
        /\ pc = "idle" <=> LastCommand \in {<<"n">>, <<"c">>}
        /\ LastCommand \in InspectionCommands => pc = "prompt"

\* h with an argument was dispatched and the loop went on prompting
C4_Witness ==
    step = "PromptCommand" /\ LastCommand = <<"h">> /\ LastArg # <<>> /\ pc = "prompt"

\* the value p looks up for name x in frame f: locals first, then globals, else the
\* sentinel
Lookup(f, x) ==
    IF x \in DOMAIN f.f_locals THEN f.f_locals[x]
    ELSE IF x \in DOMAIN f.f_globals THEN f.f_globals[x]
    ELSE NotFound

\* C5 as stated: p with an argument prints name = value and ends the prompt loop
\* (ResumeExecution); p without an argument keeps prompting.
C5_PrintResumes ==
    (step = "PromptCommand" /\ LastCommand = <<"p">>) =>
        IF LastArg # <<>>
        THEN out = <<ValueLine(LastArg, Lookup(frame, LastArg))>> /\ pc = "idle"
        ELSE pc = "prompt"

\* C5, amended: p never ends the prompt loop. With an argument it prints one line, the
\* name = value line or the diagnostic of the failed access, and the loop prompts
\* again; without an argument it prints the usage hint and the loop prompts again.
C5_PrintKeepsPrompting ==
    (step = "PromptCommand" /\ LastCommand = <<"p">>) =>
        /\ pc = "prompt"
        /\ Len(out) = 1
        /\ IF LastArg # <<>>
           THEN out[1].kind \in {"value", "access_error"}
           ELSE out[1].kind = "usage"

\* p with an argument was dispatched and the loop went on prompting
C5_Witness ==
    step = "PromptCommand" /\ LastCommand = <<"p">> /\ LastArg # <<>> /\ pc = "prompt"

\* C6: a step that reads p without an argument prints exactly the usage hint (no value
\* line, no diagnostic of a lookup), raises nothing, leaves step_mode, continue_mode and
\* current_frame as they were, and is followed by another input().
C6_PrintWithoutArgument ==
    [][(pc = "prompt" /\ step' = "PromptCommand" /\ LastCommand' = <<"p">>
            /\ LastArg' = <<>>)
        => /\ out' = <<UsageLine>>
           /\ exc' = "none"
           /\ pc' = "prompt"
           /\ UNCHANGED <<step_mode, continue_mode, current_frame>>]_vars

\* p without an argument was read
C6_Witness ==
    /\ step = "PromptCommand" /\ LastCommand = <<"p">> /\ LastArg = <<>>
    /\ out = <<UsageLine>> /\ pc = "prompt"

\* C7 as stated: p x prints exactly x = locals[x], else x = globals[x], else
\* x = <not found>.
C7_PrintLooksUpLocalsFirst ==
    (step = "PromptCommand" /\ LastCommand = <<"p">> /\ LastArg # <<>>) =>
        out = <<ValueLine(LastArg, Lookup(frame, LastArg))>>

\* C8 as stated: l prints the heading and then exactly the lines max(c - 5, 1) .. c + 5
\* in increasing order, the line c alone marked, lines past the end of the file empty.
C8_ListShowsWindow ==
    (step = "PromptCommand" /\ LastCommand = <<"l">>) =>
        LET c == frame.f_lineno
            lo == IF c - 5 > 1 THEN c - 5 ELSE 1
            hi == c + 5
        IN  /\ Len(out) = hi - lo + 2
            /\ \A i \in 1..(hi - lo + 1) :
                /\ out[i + 1].kind = "source"
                /\ out[i + 1].num = lo + i - 1
                /\ out[i + 1].num >= 1
                /\ out[i + 1].marker = "-->" <=> out[i + 1].num = c
                /\ out[i + 1].num > FileLen => out[i + 1].text = <<>>

\* C9: a step that reads a line whose first word is not a command key prints the
\* unknown-command line followed by the help text, leaves step_mode, continue_mode and
\* current_frame as they were, and is followed by another input().
C9_UnknownCommand ==
    [][(pc = "prompt" /\ step' = "PromptCommand" /\ LastCommand' # <<>>
            /\ LastCommand' \notin {<<"h">>, <<"n">>, <<"p">>, <<"l">>, <<"c">>, <<"v">>,
                                    <<"q">>})
        => /\ out' = <<UnknownLine(LastCommand')>> \o HelpText
           /\ pc' = "prompt"
           /\ UNCHANGED <<step_mode, continue_mode, current_frame>>]_vars

\* an unknown command with an argument was read
C9_Witness ==
    /\ step = "PromptCommand" /\ LastCommand = <<"x">> /\ LastArg # <<>>
    /\ pc = "prompt" /\ Len(out) = 1 + Len(HelpText)

\* C10: a step that reads q ends the process with status 0 without trace_function
\* returning (no handler of the prompt loop absorbs the exit), and no step is ever taken
\* from an exited state: no further prompt read and no further event.
C10_QuitTerminates ==
    [][/\ pc # "exited"
       /\ (pc = "prompt" /\ step' = "PromptCommand" /\ LastCommand' = <<"q">>)
            => /\ pc' = "exited"
               /\ exit_code' = <<0>>
               /\ out' = <<>>
               /\ UNCHANGED <<ret, step_mode, continue_mode>>]_vars

\* q was read and the process has exited
C10_Witness ==
    /\ pc = "exited" /\ step = "PromptCommand" /\ LastCommand = <<"q">>
    /\ exit_code = <<0>> /\ exc = "SystemExit"

\* C11: when trace_function has returned from a line event, it returned itself if
\* continue_mode is false at that moment and None if it is true; an event ended by c
\* returned None and one ended by n returned itself.
C11_LineEventDecision ==
    (pc = "idle" /\ step \in {"TraceLine", "PromptCommand"}) =>
        /\ ret = Self <=> ~continue_mode
        /\ ret = None <=> continue_mode
        /\ LastCommand = <<"c">> => ret = None
        /\ LastCommand = <<"n">> => ret = Self

\* a line event ended by c has returned None
C11_Witness ==
    /\ pc = "idle" /\ step = "PromptCommand" /\ event = "line"
    /\ LastCommand = <<"c">> /\ ret = None

\* C12: a prompt-loop iteration in which input() or the dispatch raises anything but
\* the exit of q ends with the loop at input() again, the hint (for an interruption)
\* or the error line printed last, and step_mode and continue_mode as they were.
C12_FailuresStayInLoop ==
    [][(pc = "prompt" /\ exc' \notin {"none", "SystemExit"})
        => /\ pc' = "prompt"
           /\ out' # <<>>
           /\ out'[Len(out')] =
                (IF exc' = "KeyboardInterrupt" THEN HintLine ELSE ErrorLine(exc'))
           /\ UNCHANGED <<step_mode, continue_mode, ret, exit_code>>]_vars

\* a handler raised, the error line was printed and the loop is at input() again
C12_Witness ==
    /\ step = "PromptCommand" /\ exc = "AttributeError" /\ LastCommand = <<"v">>
    /\ pc = "prompt" /\ out = <<ErrorLine("AttributeError")>>

\* C13: at every prompt, whatever errors came before, n is accepted and c is accepted,
\* each ending the prompt with trace_function returned; and if the operator does not
\* withhold n, c and q for ever, every prompt ends: the handler returns or the process
\* exits.
C13_ErrorsNeverBlockResumption ==
    /\ [](pc = "prompt" =>
            /\ ENABLED (PromptCommand /\ last_command' = <<"n">> /\ pc' = "idle")
            /\ ENABLED (PromptCommand /\ last_command' = <<"c">> /\ pc' = "idle"))
    /\ (pc = "prompt" ~> pc # "prompt")

\* a prompt that saw an error was ended by n and trace_function returned
C13_Witness ==
    /\ erred /\ step = "PromptCommand" /\ LastCommand = <<"n">>
    /\ pc = "idle" /\ ret = Self

\* C14: a line event delivered while continue_mode is false prints the location and
\* the current line, once, and opens a prompt; no step taken at the prompt prints them
\* again; and n ends the prompt with continue_mode still false, so that the next line
\* event prompts again.
C14_EveryLineRendersOnceThenPrompts ==
    [][/\ (pc = "idle" /\ step' = "TraceLine" /\ ~continue_mode) =>
            /\ out' = <<AtLine(frame'.co_filename, frame'.f_lineno),
                        CurrentLine(getline(frame'.co_filename, frame'.f_lineno))>>
            /\ pc' = "prompt"
       /\ pc = "prompt" => \A i \in 1..Len(out') : out'[i].kind \notin {"at", "current"}
       /\ (pc = "prompt" /\ step' = "PromptCommand" /\ LastCommand' = <<"n">>) =>
            (pc' = "idle" /\ ~continue_mode')]_vars

\* after an n, the next line event rendered its line and opened a prompt
C14_Witness ==
    n_issued /\ step = "TraceLine" /\ pc = "prompt" /\ Len(out) = 2

\* C15: continue_mode becomes true only in a step that reads c at the prompt, never
\* becomes false again, and trace_function returns None only when a c was dispatched
\* before.
C15_ContinueOneWay ==
    [][/\ (~continue_mode /\ continue_mode') =>
            (pc = "prompt" /\ step' = "PromptCommand" /\ LastCommand' = <<"c">>)
       /\ continue_mode => continue_mode'
       /\ ret' = None => c_issued']_vars

\* after a c, a later call of trace_function returned None
C15_Witness ==
    c_issued /\ continue_mode /\ step = "TraceOther" /\ ret = None /\ event = "call"

\* C16: step_mode is false when a line event has just been delivered and as long as
\* its prompt is open; at the prompt, the handler of n is the only one that leaves
\* step_mode true, and the handler of every other line leaves it false.
C16_StepRequestNeverCarriesOver ==
    /\ step = "TraceLine" => ~step_mode
    /\ pc = "prompt" =>
        /\ ~step_mode
        /\ \A line \in Lines :
             TryBody(line).step_mode <=>
                (TryBody(line).dispatched /\ TryBody(line).command = <<"n">>)

\* after an n, the next line event was delivered with step_mode false
C16_Witness ==
    n_issued /\ step = "TraceLine" /\ event = "line" /\ ~step_mode /\ ~continue_mode

\* C17: a call of trace_function with an event that is not a line event prints
\* nothing, opens no prompt and leaves step_mode, continue_mode, current_frame and the
\* traced frame as they were.
C17_OtherEventsPassThrough ==
    [][(pc = "idle" /\ step' = "TraceOther")
        => /\ out' = <<>>
           /\ pc' = "idle"
           /\ UNCHANGED <<step_mode, continue_mode, current_frame, frame>>]_vars

\* an exception event was delivered after a line event had stored a frame
C17_Witness ==
    step = "TraceOther" /\ event = "exception" /\ current_frame # None /\ pc = "idle"

\* C18 as stated: for every event that is not a line event trace_function returns
\* itself, in every state in which such an event arrives.
C18_OtherEventsReRegister == step = "TraceOther" => ret = Self

\* C18, amended: for an event that is not a line event trace_function returns itself
\* if continue_mode is false and None if it is true.
C18_OtherEventsDecision ==
    step = "TraceOther" =>
        /\ ret = Self <=> ~continue_mode
        /\ ret = None <=> continue_mode

\* a return event arrived while continuing and trace_function returned None
C18_Witness ==
    step = "TraceOther" /\ event = "return" /\ continue_mode /\ ret = None

\* C19: a step that reads h, p, l or v, with any argument, leaves step_mode,
\* continue_mode and current_frame as they were, returns from nothing and ends
\* nothing: the loop is at input() again.
C19_InspectionChangesNothing ==
    [][(pc = "prompt" /\ step' = "PromptCommand" /\ LastCommand' \in InspectionCommands)
        => /\ UNCHANGED <<step_mode, continue_mode, current_frame, frame, ret, exit_code>>
           /\ pc' = "prompt"]_vars

\* v with an argument was read at a prompt
C19_Witness ==
    step = "PromptCommand" /\ LastCommand = <<"v">> /\ LastArg # <<>> /\ pc = "prompt"

-----------------------------------------------------------------------------
(* Two runs that differ in step_mode *)

\* the other run: the same state with the other value of step_mode
Flip ==
    /\ step_mode' = ~step_mode
    /\ UNCHANGED <<continue_mode, current_frame, frame, event, pc, step, last_command,
                   last_arg, exc, out, ret, exit_code, c_issued, n_issued, erred>>

\* the debugger with step_mode taking either value at any moment
SpecFlip == Init /\ [][Next \/ Flip]_vars

\* the state but for step_mode
Low ==
    [continue_mode |-> continue_mode, current_frame |-> current_frame, frame |-> frame,
     event |-> event, pc |-> pc, step |-> step, last_command |-> last_command,
     last_arg |-> last_arg, exc |-> exc, out |-> out, ret |-> ret,
     exit_code |-> exit_code, c_issued |-> c_issued, n_issued |-> n_issued,
     erred |-> erred]

\* Low after trace_function is called with a line event and frame f
AfterTraceLine(f) ==
    LET called == [Low EXCEPT !.frame = f, !.event = "line",
                              !.current_frame = getframeinfo(f), !.step = "TraceLine"]
    IN  IF ~continue_mode
        THEN [called EXCEPT !.out = _show_current_line(getframeinfo(f)),
                            !.pc = "prompt", !.last_command = <<>>, !.last_arg = <<>>,
                            !.exc = "none", !.erred = FALSE]
        ELSE [called EXCEPT !.out = <<>>, !.ret = Decision(continue_mode)]

\* Low after trace_function is called with an event ev that is not a line event
AfterTraceOther(ev) ==
    [Low EXCEPT !.event = ev, !.step = "TraceOther", !.out = <<>>,
                !.ret = Decision(continue_mode)]

\* Low after the prompt-loop iteration of operation s whose try body ended as r
AfterIteration(r, s) ==
    LET uncaught == r.exc # "none" /\ ~Caught(r.exc)
        read == [Low EXCEPT !.step = s, !.exc = r.exc, !.last_command = r.command,
                            !.last_arg = r.arg,
                            !.c_issued = (c_issued \/ (r.dispatched /\ r.command = <<"c">>)),
                            !.n_issued = (n_issued \/ (r.dispatched /\ r.command = <<"n">>)),
                            !.erred = (erred \/ Errs(r)),
                            !.continue_mode = r.continue_mode]
    IN  IF uncaught
        THEN [read EXCEPT !.pc = "exited", !.exit_code = <<ExitStatus>>, !.out = r.out]
        ELSE IF r.brk
        THEN [read EXCEPT !.pc = "idle", !.out = r.out,
                          !.ret = Decision(r.continue_mode)]
        ELSE [read EXCEPT !.pc = "prompt",
                          !.out = r.out \o (IF r.exc = "none" THEN <<>>
                                            ELSE Diagnostic(r.exc))]

\* a line whose reading gives the command, the argument and the exception recorded
Entered ==
    IF last_command = <<>> THEN (IF exc = "none" THEN <<>> ELSE <<Blank>>)
    ELSE IF last_arg = <<>> THEN last_command
    ELSE last_command \o <<Blank>> \o last_arg

\* a line without its padding: the command, a blank and the argument
Unpadded(line) ==
    LET parts == Split(line)
    IN  IF line = <<>> THEN <<>>
        ELSE IF parts = <<>> THEN <<Blank>>
        ELSE IF Len(parts) = 1 THEN parts[1]
        ELSE parts[1] \o <<Blank>> \o parts[2]

\* the lines without padding: one for each way a read line can be split
Entries == {Unpadded(line) : line \in Lines}

\* C20: step_mode is never read. Two states that differ in step_mode only answer every
\* event and every line read at the prompt with the same output, the same decision and
\* the same state but for step_mode; every step of the debugger is such an answer, a
\* padded line being answered as the line without its padding; and reading n does what
\* reading an empty line does, but that it ends the prompt loop and trace_function
\* returns.
C20_StepModeNeverRead ==
    [][/\ (~step_mode /\ step_mode' /\ Low' = Low) =>
            /\ pc = "idle" =>
                /\ \A f \in Frames : AfterTraceLine(f)' = AfterTraceLine(f)
                /\ \A ev \in Events \ {"line"} : AfterTraceOther(ev)' = AfterTraceOther(ev)
            /\ pc = "prompt" =>
                /\ \A line \in Entries :
                     \A r \in {TryBody(line)} : \A q \in {TryBody(line)'} :
                        AfterIteration(q, "PromptCommand")'
                            = AfterIteration(r, "PromptCommand")
                /\ \A e \in InputFailures :
                     AfterIteration(InputRaised(e), "PromptInputFails")'
                        = AfterIteration(InputRaised(e), "PromptInputFails")
       /\ Low' # Low =>
            /\ step' = "TraceLine" => (pc = "idle" /\ Low' = AfterTraceLine(frame'))
            /\ step' = "TraceOther" => (pc = "idle" /\ Low' = AfterTraceOther(event'))
            /\ step' = "PromptCommand" =>
                 /\ pc = "prompt"
                 /\ \E line \in {Entered'} :
                      /\ line \in Entries
                      /\ \E r \in {TryBody(line)} :
                           Low' = AfterIteration(r, "PromptCommand")
            /\ step' = "PromptInputFails" =>
                 (pc = "prompt" /\ Low' = AfterIteration(InputRaised(exc'), "PromptInputFails"))
       /\ pc = "prompt" =>
            LET n == AfterIteration(TryBody(<<"n">>), "PromptCommand")
                e == AfterIteration(TryBody(<<>>), "PromptCommand")
            IN  /\ n.pc = "idle" /\ e.pc = "prompt"
                /\ n = [e EXCEPT !.pc = "idle", !.ret = Decision(continue_mode),
                                 !.last_command = <<"n">>, !.n_issued = TRUE]]_vars

\* h was read at a prompt in the run in which step_mode is true
C20_Witness ==
    /\ step = "PromptCommand" /\ LastCommand = <<"h">> /\ pc = "prompt"
    /\ step_mode /\ ~continue_mode /\ out = HelpText

====
